---- MODULE Spec2Model ----
(***************************************************************************)
(* The call-session coordinator of the client: the React hook              *)
(* useRealtimeCommunication (src/src/hooks/useRealtimeCommunication.ts).   *)
(*                                                                         *)
(* cs is the hook's callState as the queued functional updaters leave it   *)
(* (every setCallState of the hook is a functional updater, so applying    *)
(* them in order at once gives the state the next render commits).         *)
(* callStateRef is what handlers read through callStateRef.current and     *)
(* through the closures of the last render: it is brought up to date only  *)
(* by Render (the effect of lines 60-62 runs after a render).              *)
(* effects is the set of REST requests and signaling messages issued by    *)
(* the most recent step.                                                   *)
(*                                                                         *)
(* The variables up to events are one coordinator, the one that is taking  *)
(* steps. For a call between two clients, other holds the second           *)
(* coordinator, active names the one the first seventeen variables are,    *)
(* and inbox holds the messages the relay has queued for each of them.     *)
(*                                                                         *)
(* ws is the socket of a hook whose token and userId stay the same while   *)
(* it is mounted, as in the pages of the application. sockets, wsRef and   *)
(* isConnected follow every socket the effect of lines 299-442 creates     *)
(* when token or userId do change.                                         *)
(*                                                                         *)
(* socket, closedByUser, retryDelay, conns, retryTimers and called are     *)
(* the state of one handle of the reconnecting helper of services/ws.ts.   *)
(***************************************************************************)
EXTENDS Integers, FiniteSets, Sequences, TLC

VARIABLES cs, callStateRef, incomingCall, rIncoming, ws, pc, pcOpen,
          liveStreams, timers, durationIntervalRef, armed, pendingRest,
          pendingMedia, effects, mounted, lag, events,
          other, active, inbox, sockets, wsRef, isConnected,
          socket, closedByUser, retryDelay, conns, retryTimers, called

vars == <<cs, callStateRef, incomingCall, rIncoming, ws, pc, pcOpen,
          liveStreams, timers, durationIntervalRef, armed, pendingRest,
          pendingMedia, effects, mounted, lag, events,
          other, active, inbox, sockets, wsRef, isConnected,
          socket, closedByUser, retryDelay, conns, retryTimers, called>>

\* the state of a handle of the reconnecting helper
helper == <<socket, closedByUser, retryDelay, conns, retryTimers, called>>

(* ------------------------------ bounds -------------------------------- *)
MaxDuration == 1
MaxCand == 1
MaxTimers == 1
MaxInFlight == 1
MaxMedia == 1
MaxLive == 2
MaxLag == 2
MaxEvents == 5
MaxSockets == 3
MaxConns == 6

(* ------------------------------ values -------------------------------- *)
NULL == "null"
NoId == "missing"
ClickEvent == "event"
STREAM == "stream"
CallIds == {"c1", "c2"}
MsgIds == CallIds \cup {NoId}
CallTypes == {"audio", "video"}
CallStatus == {"idle", "calling", "ringing", "connected", "ended", "declined", "busy", "no_answer"}

Rest(type, id) == [ch |-> "rest", type |-> type, id |-> id]
Sig(type, id) == [ch |-> "ws", type |-> type, id |-> id]
\* setError(msg): the user-facing error is only ever written by the hook
SetError(msg) == [ch |-> "error", type |-> msg, id |-> NULL]

\* a send that transmits whatever the state of the socket is
WsSendAlways(type, id) == {Sig(type, id)}

\* wsRef.current.send guarded by readyState === WebSocket.OPEN
WsSend(type, id) == IF ws = "open" THEN {Sig(type, id)} ELSE {}

\* payload?.call_id ?? prev.callId
OrPrev(id, prev) == IF id = NoId THEN prev ELSE id

\* what Render copies: the fields of callState that handlers and closures read
Snapshot(s) == [status |-> s.status, callId |-> s.callId, callType |-> s.callType,
                localStream |-> s.localStream, isInitiator |-> s.isInitiator]

InitialCallState == [callId |-> NULL, callType |-> "video", status |-> "idle",
                     remoteStream |-> NULL, localStream |-> NULL,
                     callDuration |-> 0, isInitiator |-> FALSE]

\* peerConnectionRef.current: NoPc is null; NewPc is a new RTCPeerConnection with
\* no descriptions and no candidates
NoPc == [set |-> FALSE, local |-> "none", remote |-> "none", cands |-> 0]
NewPc == [set |-> TRUE, local |-> "none", remote |-> "none", cands |-> 0]

\* the incomingCall state: NoIncoming is null
NoIncoming == [callId |-> NULL]

\* the two clients of a call, and the other one of a client
Clients == {"A", "B"}

Peer(p) == IF p = "A" THEN "B" ELSE "A"

\* the coordinator that is taking steps, as one value
Coordinator ==
    [cs |-> cs, callStateRef |-> callStateRef, incomingCall |-> incomingCall,
     rIncoming |-> rIncoming, ws |-> ws, pc |-> pc, pcOpen |-> pcOpen,
     liveStreams |-> liveStreams, timers |-> timers,
     durationIntervalRef |-> durationIntervalRef, armed |-> armed,
     pendingRest |-> pendingRest, pendingMedia |-> pendingMedia, effects |-> effects,
     mounted |-> mounted, lag |-> lag, events |-> events]

\* a coordinator after the hook's first render (lines 37-62, 299-307)
InitialCoordinator ==
    [cs |-> InitialCallState, callStateRef |-> Snapshot(InitialCallState),
     incomingCall |-> NoIncoming, rIncoming |-> NoIncoming, ws |-> "connecting",
     pc |-> NoPc, pcOpen |-> 0, liveStreams |-> 0,
     timers |-> [declined |-> 0, idle |-> 0], durationIntervalRef |-> FALSE,
     armed |-> 0, pendingRest |-> {}, pendingMedia |-> {}, effects |-> {},
     mounted |-> TRUE, lag |-> 0, events |-> 0]

\* the sockets the effect can create, in the order it creates them
SocketIds == 1..MaxSockets

\* the sockets a handle of the helper can create, in the order it creates them
ConnIds == 1..MaxConns

Init ==
    /\ socket = 1
    /\ closedByUser = FALSE
    /\ retryDelay = 500
    /\ conns = [i \in ConnIds |-> IF i = 1 THEN "connecting" ELSE "unused"]
    /\ retryTimers = <<>>
    /\ called = {}
    /\ sockets = [i \in SocketIds |-> IF i = 1 THEN "connecting" ELSE "unused"]
    /\ wsRef = 1
    /\ isConnected = FALSE
    /\ other = InitialCoordinator
    /\ active = "A"
    /\ inbox = [p \in Clients |-> <<>>]
    /\ cs = InitialCallState
    /\ callStateRef = Snapshot(InitialCallState)
    /\ incomingCall = NoIncoming
    /\ rIncoming = NoIncoming
    /\ ws = "connecting"
    /\ pc = NoPc
    /\ pcOpen = 0
    /\ liveStreams = 0
    /\ timers = [declined |-> 0, idle |-> 0]
    /\ durationIntervalRef = FALSE
    /\ armed = 0
    /\ pendingRest = {}
    /\ pendingMedia = {}
    /\ effects = {}
    /\ mounted = TRUE
    /\ lag = 0
    /\ events = 0

(* --------------------------- render / effects ------------------------- *)
\* cleanup of the duration effect (lines 808-813), run when status changed
TimerEffectCleared == IF durationIntervalRef THEN armed - 1 ELSE armed

\* A render commits cs; its effects run: callStateRef.current = callState, and,
\* when callState.status changed, the duration effect's cleanup and body.
Render ==
    /\ mounted
    /\ lag > 0
    /\ callStateRef' = Snapshot(cs)
    /\ rIncoming' = incomingCall
    /\ lag' = 0
    /\ UNCHANGED events
    /\ IF cs.status # callStateRef.status
       THEN IF cs.status = "connected"
            THEN /\ durationIntervalRef' = TRUE
                 /\ armed' = TimerEffectCleared + 1
            ELSE /\ durationIntervalRef' = FALSE
                 /\ armed' = TimerEffectCleared
       ELSE UNCHANGED <<durationIntervalRef, armed>>
    /\ effects' = {}
    /\ UNCHANGED <<cs, incomingCall, ws, pc, pcOpen, liveStreams, timers,
                   pendingRest, pendingMedia, mounted>>
    /\ UNCHANGED <<other, active, inbox, sockets, wsRef, isConnected, helper>>

\* the interval callback (lines 797-802)
Tick ==
    /\ mounted
    /\ armed > 0
    /\ cs.callDuration < MaxDuration
    /\ cs' = [cs EXCEPT !.callDuration = @ + 1]
    /\ effects' = {}
    /\ UNCHANGED <<callStateRef, incomingCall, rIncoming, ws, pc, pcOpen,
                   liveStreams, timers, durationIntervalRef, armed, pendingRest,
                   pendingMedia, mounted>>

(* ------------------------------ socket -------------------------------- *)
WsOnOpen ==
    /\ mounted
    /\ ws = "connecting"
    /\ ws' = "open"
    /\ effects' = {}
    /\ UNCHANGED <<cs, callStateRef, incomingCall, rIncoming, pc, pcOpen,
                   liveStreams, timers, durationIntervalRef, armed, pendingRest,
                   pendingMedia, mounted>>

WsOnClose ==
    /\ mounted
    /\ ws \in {"connecting", "open"}
    /\ ws' = "closed"
    /\ effects' = {}
    /\ UNCHANGED <<cs, callStateRef, incomingCall, rIncoming, pc, pcOpen,
                   liveStreams, timers, durationIntervalRef, armed, pendingRest,
                   pendingMedia, mounted>>

(* ------------------------- peer connection ---------------------------- *)
\* peerConnectionRef.current?.close(): the number of open connections afterwards
ClosePc(n) == IF pc.set THEN n - 1 ELSE n

\* initializePeerConnection (lines 92-151): closes the referenced connection,
\* creates a new one and stores it in peerConnectionRef
InitializePeerConnectionOpen == ClosePc(pcOpen) + 1

(* ------------------------------ cleanup ------------------------------- *)
\* prev.localStream?.getTracks().forEach(track => track.stop())
StopLocalTracks(n) == IF cs.localStream # NULL THEN n - 1 ELSE n

\* the updater of performCleanup (lines 738-749)
PerformCleanupState(finalStatus) ==
    [cs EXCEPT !.status = finalStatus, !.callId = NULL, !.localStream = NULL,
               !.remoteStream = NULL, !.callDuration = 0, !.isInitiator = FALSE]

\* startCall's cleanup with an updater that keeps callId
StartCleanupKeepsCallId ==
    [cs EXCEPT !.status = "idle", !.localStream = NULL, !.remoteStream = NULL,
               !.callDuration = 0, !.isInitiator = FALSE]

\* startCall's cleanup with an updater that keeps localStream
StartCleanupKeepsStream ==
    [cs EXCEPT !.status = "idle", !.callId = NULL, !.remoteStream = NULL,
               !.callDuration = 0, !.isInitiator = FALSE]

\* the updater of startCall's cleanup (lines 453-464)
StartCleanupState ==
    [cs EXCEPT !.status = "idle", !.callId = NULL, !.localStream = NULL,
               !.remoteStream = NULL, !.callDuration = 0, !.isInitiator = FALSE]

\* the updater of acceptCall's cleanup (lines 576-586): isInitiator is kept
AcceptCleanupState ==
    [cs EXCEPT !.status = "idle", !.callId = NULL, !.localStream = NULL,
               !.remoteStream = NULL, !.callDuration = 0]

\* endCall (line 756): overrideCallId ?? callStateRef.current.callId ??
\* callState.callId, where callState is the state of the render that made the
\* closure
CurrentCallId(override, closureCallId) ==
    IF override # NULL THEN override
    ELSE IF callStateRef.callId # NULL THEN callStateRef.callId
    ELSE closureCallId

\* endCall (lines 758-771): the REST request and the signaling message
EndCallEffects(currentCallId) ==
    IF currentCallId # NULL
    THEN {Rest("end_call", currentCallId)} \cup WsSend("end_call", currentCallId)
    ELSE {}

\* a first-render closure that had captured a callId
StaleClosureCallId == "c1"

\* the endCall made by the first render, which ws.onmessage (effect of lines
\* 299-442) and initializePeerConnection (useCallback with no dependencies) keep:
\* its callState is the initial one
FirstRenderCallId == InitialCallState.callId

\* endCall followed by performCleanup (lines 729-776), with finalStatus 'ended'
EndCall(override, closureCallId) ==
    /\ effects' = EndCallEffects(CurrentCallId(override, closureCallId))
    /\ pc' = NoPc
    /\ pcOpen' = ClosePc(pcOpen)
    /\ durationIntervalRef' = FALSE
    /\ armed' = IF durationIntervalRef THEN armed - 1 ELSE armed
    /\ cs' = PerformCleanupState("ended")
    /\ liveStreams' = StopLocalTracks(liveStreams)
    /\ incomingCall' = NoIncoming
    /\ UNCHANGED <<callStateRef, rIncoming, ws, timers, pendingRest,
                   pendingMedia, mounted>>

\* the End-call button (RealtimeCommunicationUI.tsx 235, 389): onClick={onEndCall}
\* passes the click event as overrideCallId; the button is rendered only in the
\* call view (no incoming notice, status not idle, callId set). currentCallId
\* is the event: the REST request is made for it (lines 759-761); on an open
\* socket JSON.stringify of the message (lines 764-769) throws, a React event
\* holding its DOM node and fiber, which refer to each other, so nothing is
\* sent and performCleanup (line 773) is not reached.
UiEndCall ==
    /\ mounted
    /\ rIncoming = NoIncoming
    /\ callStateRef.status # "idle"
    /\ callStateRef.callId # NULL
    /\ IF ws = "open"
       THEN /\ effects' = {Rest("end_call", ClickEvent)}
            /\ UNCHANGED <<cs, callStateRef, incomingCall, rIncoming, ws, pc, pcOpen,
                           liveStreams, timers, durationIntervalRef, armed,
                           pendingRest, pendingMedia, mounted>>
       ELSE EndCall(ClickEvent, callStateRef.callId)

\* peerConnection.onconnectionstatechange (lines 142-147): failed / disconnected
PcConnectionFailed ==
    /\ mounted
    /\ pc.set
    /\ EndCall(NULL, FirstRenderCallId)

\* peerConnection.ontrack (lines 108-114)
PcOnTrack ==
    /\ mounted
    /\ pc.set
    /\ pc.remote # "none"
    /\ cs' = [cs EXCEPT !.remoteStream = STREAM]
    /\ effects' = {}
    /\ UNCHANGED <<callStateRef, incomingCall, rIncoming, ws, pc, pcOpen,
                   liveStreams, timers, durationIntervalRef, armed, pendingRest,
                   pendingMedia, mounted>>

\* peerConnection.onicecandidate (lines 117-139): a local candidate, available
\* once a local description is set
PcOnIceCandidate ==
    /\ mounted
    /\ pc.set
    /\ pc.local # "none"
    /\ effects' = IF callStateRef.callId = NULL THEN {}
                  ELSE WsSend("ice_candidate", callStateRef.callId)
    /\ UNCHANGED <<cs, callStateRef, incomingCall, rIncoming, ws, pc, pcOpen,
                   liveStreams, timers, durationIntervalRef, armed, pendingRest,
                   pendingMedia, mounted>>

(* ------------------------------- media -------------------------------- *)
\* startLocalMedia(audioOnly) up to its first await: getUserMedia is requested
MediaRequest(origin, audioOnly) == [origin |-> origin, audioOnly |-> audioOnly, fallback |-> FALSE]

CanRequestMedia(origin, audioOnly) ==
    /\ Cardinality(pendingMedia) < MaxMedia
    /\ \A m \in pendingMedia : m.origin # origin

\* handleMediaAccessError (lines 64-89); isAudio / isVideo are not modelled
MediaAccessErrorMsg(kind) ==
    IF kind = "permission"
    THEN "Camera/Mic access was blocked. Please allow permissions and try again."
    ELSE "No camera or microphone detected. Connect a device and retry."

\* what the caller of startLocalMedia does once it settled: acceptCall goes on to
\* setIncomingCall(null) (line 686); startCall and call_accepted do nothing more
AfterMedia(origin) == IF origin = "accept" THEN NoIncoming ELSE incomingCall

\* getUserMedia resolved (requestStream, lines 157-172), also for the fallback
MediaGranted(m) ==
    /\ mounted
    /\ m \in pendingMedia
    /\ liveStreams < MaxLive
    /\ cs' = [cs EXCEPT !.localStream = STREAM]
    /\ liveStreams' = liveStreams + 1
    /\ effects' = IF m.fallback
                  THEN {SetError("Camera access blocked. Continuing with audio-only.")}
                  ELSE {}
    /\ pendingMedia' = pendingMedia \ {m}
    /\ incomingCall' = AfterMedia(m.origin)
    /\ UNCHANGED <<callStateRef, rIncoming, ws, pc, pcOpen, timers, durationIntervalRef,
                   armed, pendingRest, mounted>>

\* getUserMedia rejected (lines 181-205): a video request blocked by permissions
\* is retried audio-only; any other failure goes to handleMediaAccessError
MediaDenied(m, kind) ==
    /\ mounted
    /\ m \in pendingMedia
    /\ IF ~m.audioOnly /\ ~m.fallback /\ kind = "permission"
       THEN /\ pendingMedia' = (pendingMedia \ {m}) \cup {[m EXCEPT !.fallback = TRUE]}
            /\ effects' = {}
            /\ UNCHANGED <<cs, incomingCall>>
       ELSE /\ pendingMedia' = pendingMedia \ {m}
            /\ cs' = [cs EXCEPT !.localStream = NULL]
            /\ effects' = {SetError(MediaAccessErrorMsg(kind))}
            /\ incomingCall' = AfterMedia(m.origin)
    /\ UNCHANGED <<callStateRef, rIncoming, ws, pc, pcOpen, liveStreams, timers,
                   durationIntervalRef, armed, pendingRest, mounted>>

(* ---------------------------- negotiation ---------------------------- *)
Min(a, b) == IF a < b THEN a ELSE b

\* createOffer (lines 211-236); result is what createOffer / setLocalDescription
\* of the browser do: "ok", or "reject" when one of them rejects
CreateOfferFails(result) == ~pc.set \/ callStateRef.callId = NULL \/ result # "ok"

CreateOfferError(result) ==
    IF ~pc.set THEN "Peer connection not initialized"
    ELSE IF callStateRef.callId = NULL THEN "Missing call ID for offer"
    ELSE "Failed to create offer"

CreateOfferPc(result) == IF CreateOfferFails(result) THEN pc ELSE [pc EXCEPT !.local = "offer"]

CreateOfferEffects(result) ==
    IF CreateOfferFails(result) THEN {SetError(CreateOfferError(result))}
    ELSE WsSend("offer", callStateRef.callId)

\* createAnswer (lines 239-266); result: "ok", "reject_remote" when
\* setRemoteDescription rejects, "reject" when createAnswer / setLocalDescription do
CreateAnswerFails(result) == ~pc.set \/ callStateRef.callId = NULL \/ result # "ok"

CreateAnswerError(result) ==
    IF ~pc.set THEN "Peer connection not initialized"
    ELSE IF callStateRef.callId = NULL THEN "Missing call ID for answer"
    ELSE "Failed to create answer"

CreateAnswerPc(result) ==
    IF ~pc.set \/ callStateRef.callId = NULL \/ result = "reject_remote" THEN pc
    ELSE IF result = "reject" THEN [pc EXCEPT !.remote = "offer"]
    ELSE [pc EXCEPT !.remote = "offer", !.local = "answer"]

CreateAnswerEffects(result) ==
    IF CreateAnswerFails(result) THEN {SetError(CreateAnswerError(result))}
    ELSE WsSend("answer", callStateRef.callId)

\* handleRemoteAnswer (lines 269-278): failures are logged only
HandleRemoteAnswerPc(result) ==
    IF pc.set /\ result = "ok" THEN [pc EXCEPT !.remote = "answer"] ELSE pc

\* handleIceCandidate (lines 281-296): failures are logged only
HandleIceCandidatePc(result) ==
    IF pc.set /\ result = "ok" THEN [pc EXCEPT !.cands = Min(@ + 1, MaxCand)] ELSE pc

\* the guard of the offer / answer / ice_candidate cases (lines 366, 374, 382)
NonActiveCall(id) == id = NoId \/ id # callStateRef.callId

(* ------------------------- inbound messages --------------------------- *)
\* ws.onmessage delivers only on an open socket of a mounted component
Delivering == mounted /\ ws = "open"

\* case 'incoming_call' (lines 318-327); fromUser and callType are left out: the
\* call type of the session is the one acceptCall is given
RecvIncomingCall(id) ==
    /\ Delivering
    /\ incomingCall' = [callId |-> id]
    /\ effects' = {}
    /\ UNCHANGED <<cs, callStateRef, rIncoming, ws, pc, pcOpen, liveStreams,
                   timers, durationIntervalRef, armed, pendingRest, pendingMedia, mounted>>

\* case 'call_ringing' (lines 329-335)
RecvCallRinging(id) ==
    /\ Delivering
    /\ cs' = [cs EXCEPT !.status = "ringing", !.callId = OrPrev(id, cs.callId)]
    /\ effects' = {}
    /\ UNCHANGED <<callStateRef, incomingCall, rIncoming, ws, pc, pcOpen,
                   liveStreams, timers, durationIntervalRef, armed, pendingRest,
                   pendingMedia, mounted>>

\* case 'call_accepted' (lines 337-349)
RecvCallAccepted(id) ==
    /\ Delivering
    /\ cs' = [cs EXCEPT !.status = "connected", !.callId = OrPrev(id, cs.callId)]
    /\ IF ~pc.set
       THEN pc' = NewPc /\ pcOpen' = InitializePeerConnectionOpen
       ELSE UNCHANGED <<pc, pcOpen>>
    /\ IF callStateRef.localStream = NULL
       THEN /\ CanRequestMedia("accepted", callStateRef.callType = "audio")
            /\ pendingMedia' = pendingMedia \cup
                   {MediaRequest("accepted", callStateRef.callType = "audio")}
       ELSE UNCHANGED pendingMedia
    /\ effects' = {}
    /\ UNCHANGED <<callStateRef, incomingCall, rIncoming, ws, liveStreams,
                   timers, durationIntervalRef, armed, pendingRest, mounted>>

\* case 'participants_ready' (lines 351-363)
RecvParticipantsReady(id, result) ==
    /\ Delivering
    /\ cs' = [cs EXCEPT !.status = "connected", !.callId = OrPrev(id, cs.callId)]
    /\ IF callStateRef.isInitiator
       THEN /\ pc' = CreateOfferPc(result)
            /\ effects' = CreateOfferEffects(result)
       ELSE /\ result = "ok"
            /\ effects' = {}
            /\ UNCHANGED pc
    /\ UNCHANGED <<callStateRef, incomingCall, rIncoming, ws, pcOpen, liveStreams,
                   timers, durationIntervalRef, armed, pendingRest, pendingMedia, mounted>>

\* case 'offer' (lines 365-371)
RecvOffer(id, result) ==
    /\ Delivering
    /\ IF NonActiveCall(id)
       THEN /\ result = "ok"
            /\ effects' = {}
            /\ UNCHANGED pc
       ELSE /\ pc' = CreateAnswerPc(result)
            /\ effects' = CreateAnswerEffects(result)
    /\ UNCHANGED <<cs, callStateRef, incomingCall, rIncoming, ws, pcOpen, liveStreams,
                   timers, durationIntervalRef, armed, pendingRest, pendingMedia, mounted>>

\* case 'answer' (lines 373-379)
RecvAnswer(id, result) ==
    /\ Delivering
    /\ result \in {"ok", "reject"}
    /\ IF NonActiveCall(id)
       THEN result = "ok" /\ UNCHANGED pc
       ELSE pc' = HandleRemoteAnswerPc(result)
    /\ effects' = {}
    /\ UNCHANGED <<cs, callStateRef, incomingCall, rIncoming, ws, pcOpen,
                   liveStreams, timers, durationIntervalRef, armed, pendingRest,
                   pendingMedia, mounted>>

\* case 'ice_candidate' (lines 381-387)
RecvIceCandidate(id, result) ==
    /\ Delivering
    /\ result \in {"ok", "reject"}
    /\ IF NonActiveCall(id)
       THEN result = "ok" /\ UNCHANGED pc
       ELSE pc' = HandleIceCandidatePc(result)
    /\ effects' = {}
    /\ UNCHANGED <<cs, callStateRef, incomingCall, rIncoming, ws, pcOpen,
                   liveStreams, timers, durationIntervalRef, armed, pendingRest,
                   pendingMedia, mounted>>

\* case 'call_ended' (lines 389-391): the payload is not read
RecvCallEnded(id) ==
    /\ Delivering
    /\ EndCall(NULL, FirstRenderCallId)

\* case 'call_declined' (lines 393-411): the payload is not read; the peer
\* connection is left as it is; a 1500 ms timer is armed
RecvCallDeclined(id) ==
    /\ Delivering
    /\ timers.declined < MaxTimers
    /\ cs' = [cs EXCEPT !.status = "declined", !.callId = NULL, !.localStream = NULL,
                        !.remoteStream = NULL, !.callDuration = 0, !.isInitiator = FALSE]
    /\ liveStreams' = StopLocalTracks(liveStreams)
    /\ timers' = [timers EXCEPT !.declined = @ + 1]
    /\ effects' = {}
    /\ UNCHANGED <<callStateRef, incomingCall, rIncoming, ws, pc, pcOpen,
                   durationIntervalRef, armed, pendingRest, pendingMedia, mounted>>

\* cases 'call_busy' and 'no_answer' (lines 413-421): the payload is not read; a
\* 2000 ms timer is armed
RecvOutcome(id, status) ==
    /\ Delivering
    /\ timers.idle < MaxTimers
    /\ cs' = [cs EXCEPT !.status = status]
    /\ timers' = [timers EXCEPT !.idle = @ + 1]
    /\ effects' = {}
    /\ UNCHANGED <<callStateRef, incomingCall, rIncoming, ws, pc, pcOpen,
                   liveStreams, durationIntervalRef, armed, pendingRest, pendingMedia,
                   mounted>>

RecvCallBusy(id) == RecvOutcome(id, "busy")

RecvNoAnswer(id) == RecvOutcome(id, "no_answer")

(* ------------------------------ timers -------------------------------- *)
\* the timeout of call_declined / declineCall (lines 406-410, 720-725)
FireDeclinedTimer ==
    /\ mounted
    /\ timers.declined > 0
    /\ timers' = [timers EXCEPT !.declined = @ - 1]
    /\ cs' = [cs EXCEPT !.status = IF cs.status = "declined" THEN "idle" ELSE cs.status]
    /\ effects' = {}
    /\ UNCHANGED <<callStateRef, incomingCall, rIncoming, ws, pc, pcOpen,
                   liveStreams, durationIntervalRef, armed, pendingRest, pendingMedia,
                   mounted>>

\* the timeout of call_busy / no_answer (lines 415, 420)
FireIdleTimer ==
    /\ mounted
    /\ timers.idle > 0
    /\ timers' = [timers EXCEPT !.idle = @ - 1]
    /\ cs' = [cs EXCEPT !.status = "idle"]
    /\ effects' = {}
    /\ UNCHANGED <<callStateRef, incomingCall, rIncoming, ws, pc, pcOpen,
                   liveStreams, durationIntervalRef, armed, pendingRest, pendingMedia,
                   mounted>>

(* ----------------------------- startCall ------------------------------ *)
Pending(op, callType, callId) == [op |-> op, callType |-> callType, callId |-> callId]

\* startCall up to its first await (lines 446-475). A socket that is not open
\* throws into the catch (lines 508-558): setError(err.message), no newCallId,
\* cleanup(). Otherwise the initiate_call REST request is issued.
StartCall(callType) ==
    /\ mounted
    /\ IF ws # "open"
       THEN /\ effects' = {SetError("WebSocket is not connected")}
            /\ pc' = NoPc
            /\ pcOpen' = ClosePc(pcOpen)
            /\ cs' = StartCleanupState
            /\ liveStreams' = StopLocalTracks(liveStreams)
            /\ UNCHANGED pendingRest
       ELSE /\ Cardinality(pendingRest) < MaxInFlight
            /\ pendingRest' = pendingRest \cup {Pending("start", callType, NULL)}
            /\ effects' = {Rest("initiate_call", NULL)}
            /\ UNCHANGED <<pc, pcOpen, cs, liveStreams>>
    /\ UNCHANGED <<callStateRef, incomingCall, rIncoming, ws, timers,
                   durationIntervalRef, armed, pendingMedia, mounted>>

\* the initiate_call request succeeded with response.data.id = id (lines 477-504)
StartCallOk(r, id) ==
    /\ mounted
    /\ r \in pendingRest /\ r.op = "start"
    /\ CanRequestMedia("start", r.callType = "audio")
    /\ pendingRest' = pendingRest \ {r}
    /\ cs' = [cs EXCEPT !.callId = id, !.callType = r.callType, !.status = "calling",
                        !.isInitiator = TRUE]
    /\ pc' = NewPc
    /\ pcOpen' = InitializePeerConnectionOpen
    /\ effects' = WsSend("initiate_call", id)
    /\ pendingMedia' = pendingMedia \cup {MediaRequest("start", r.callType = "audio")}
    /\ UNCHANGED <<callStateRef, incomingCall, rIncoming, ws, liveStreams,
                   timers, durationIntervalRef, armed, mounted>>

\* the error message of startCall's catch (lines 519-544)
StartCallError(code) ==
    IF code = 409
    THEN "An active call already exists between you and this user. We will close it and you can try again."
    ELSE IF code = 404 THEN "The participant is no longer available for calls."
    ELSE "Failed to start call"

\* the initiate_call request failed (lines 508-558): code is the HTTP status (0: no
\* response), conflictId the call_id of a 409's detail (NoId: none); newCallId is
\* null, so only the conflicting call is ended; then cleanup()
StartCallFailed(r, code, conflictId) ==
    /\ mounted
    /\ r \in pendingRest /\ r.op = "start"
    /\ code # 409 => conflictId = NoId
    /\ pendingRest' = pendingRest \ {r}
    /\ effects' = {SetError(StartCallError(code))} \cup
                  (IF code = 409 /\ conflictId # NoId
                   THEN {Rest("end_call", conflictId)} \cup WsSend("end_call", conflictId)
                   ELSE {})
    /\ pc' = NoPc
    /\ pcOpen' = ClosePc(pcOpen)
    /\ cs' = StartCleanupState
    /\ liveStreams' = StopLocalTracks(liveStreams)
    /\ UNCHANGED <<callStateRef, incomingCall, rIncoming, ws, timers,
                   durationIntervalRef, armed, pendingMedia, mounted>>

(* ----------------------------- acceptCall ----------------------------- *)
\* acceptCall(callType) up to its await (lines 566-593); incomingCall is the
\* closure's
AcceptCall(callType) ==
    /\ mounted
    /\ rIncoming # NoIncoming
    /\ Cardinality(pendingRest) < MaxInFlight
    /\ pendingRest' = pendingRest \cup {Pending("accept", callType, rIncoming.callId)}
    /\ effects' = {Rest("accept_call", rIncoming.callId)}
    /\ UNCHANGED <<cs, callStateRef, incomingCall, rIncoming, ws, pc, pcOpen,
                   liveStreams, timers, durationIntervalRef, armed, pendingMedia, mounted>>

\* an acceptCall that treats no failure as already accepted
NeverAccepted(code, accepted) == FALSE

\* alreadyAccepted (lines 612-615): a 409 whose detail message contains
\* 'status: callstatus.accepted'; accepted says whether the message does
AlreadyAccepted(code, accepted) == code = 409 /\ accepted

\* accept_call settled with canProceed = true: it succeeded (code 200), or it
\* failed with alreadyAccepted (lines 591-593, 612-618, 652-681)
AcceptCallProceed(r, code, accepted) ==
    /\ mounted
    /\ r \in pendingRest /\ r.op = "accept"
    /\ IF code = 200 THEN ~accepted ELSE AlreadyAccepted(code, accepted)
    /\ CanRequestMedia("accept", r.callType = "audio")
    /\ pendingRest' = pendingRest \ {r}
    /\ cs' = [cs EXCEPT !.callId = r.callId, !.callType = r.callType,
                        !.status = "connected", !.isInitiator = FALSE]
    /\ pc' = NewPc
    /\ pcOpen' = InitializePeerConnectionOpen
    /\ effects' = WsSend("accept_call", r.callId)
    /\ pendingMedia' = pendingMedia \cup {MediaRequest("accept", r.callType = "audio")}
    /\ UNCHANGED <<callStateRef, incomingCall, rIncoming, ws, liveStreams,
                   timers, durationIntervalRef, armed, mounted>>

\* the error message of acceptCall's catch (lines 620-630)
AcceptCallError(code) ==
    IF code = 409 THEN "This call is no longer available to accept."
    ELSE IF code = 404 THEN "Call not found or already ended."
    ELSE "Failed to accept call"

\* accept_call failed otherwise (lines 619-650): detailId is the call_id of the
\* error's detail (NoId: none)
AcceptCallFailed(r, code, accepted, detailId) ==
    /\ mounted
    /\ r \in pendingRest /\ r.op = "accept"
    /\ code # 200 /\ ~AlreadyAccepted(code, accepted)
    /\ code = 0 => detailId = NoId /\ ~accepted
    /\ pendingRest' = pendingRest \ {r}
    /\ effects' = {SetError(AcceptCallError(code)),
                   Rest("end_call", OrPrev(detailId, r.callId))}
                  \cup WsSend("end_call", OrPrev(detailId, r.callId))
    /\ incomingCall' = NoIncoming
    /\ pc' = NoPc
    /\ pcOpen' = ClosePc(pcOpen)
    /\ cs' = AcceptCleanupState
    /\ liveStreams' = StopLocalTracks(liveStreams)
    /\ UNCHANGED <<callStateRef, rIncoming, ws, timers, durationIntervalRef, armed,
                   pendingMedia, mounted>>

(* ----------------------------- declineCall ---------------------------- *)
\* declineCall up to its await (lines 692-700)
DeclineCall ==
    /\ mounted
    /\ rIncoming # NoIncoming
    /\ Cardinality(pendingRest) < MaxInFlight
    /\ pendingRest' = pendingRest \cup {Pending("decline", "none", rIncoming.callId)}
    /\ effects' = {Rest("decline_call", rIncoming.callId)}
    /\ UNCHANGED <<cs, callStateRef, incomingCall, rIncoming, ws, pc, pcOpen,
                   liveStreams, timers, durationIntervalRef, armed, pendingMedia, mounted>>

\* decline_call settled, either way (lines 701-725)
DeclineCallSettled(r) ==
    /\ mounted
    /\ r \in pendingRest /\ r.op = "decline"
    /\ timers.declined < MaxTimers
    /\ pendingRest' = pendingRest \ {r}
    /\ effects' = WsSend("decline_call", r.callId)
    /\ incomingCall' = NoIncoming
    /\ cs' = [cs EXCEPT !.status = "declined",
                        !.callId = IF cs.callId = r.callId THEN NULL ELSE cs.callId]
    /\ timers' = [timers EXCEPT !.declined = @ + 1]
    /\ UNCHANGED <<callStateRef, rIncoming, ws, pc, pcOpen, liveStreams,
                   durationIntervalRef, armed, pendingMedia, mounted>>

(* ------------------------------ unmount ------------------------------- *)
\* the effects' cleanups (lines 437-441, 808-813): an open socket is closed, the
\* duration interval is cleared; nothing is modelled after an unmount
Unmount ==
    /\ mounted
    /\ mounted' = FALSE
    /\ ws' = IF ws = "open" THEN "closed" ELSE ws
    /\ durationIntervalRef' = FALSE
    /\ armed' = IF durationIntervalRef THEN armed - 1 ELSE armed
    /\ effects' = {}
    /\ UNCHANGED <<cs, callStateRef, incomingCall, rIncoming, pc, pcOpen,
                   liveStreams, timers, pendingRest, pendingMedia>>

\* an event from outside the hook: the socket, the user, the peer connection
ExternalStep(A) ==
    /\ lag < MaxLag /\ lag' = lag + 1 /\ events < MaxEvents /\ events' = events + 1 /\ A
    /\ UNCHANGED <<other, active, inbox, sockets, wsRef, isConnected, helper>>

\* a timer or the completion of an asynchronous operation the hook started
InternalStep(A) ==
    /\ lag < MaxLag /\ lag' = lag + 1 /\ UNCHANGED events /\ A
    /\ UNCHANGED <<other, active, inbox, sockets, wsRef, isConnected, helper>>

Internal ==
    \/ Tick
    \/ FireDeclinedTimer
    \/ FireIdleTimer
    \/ \E r \in pendingRest, id \in CallIds : StartCallOk(r, id)
    \/ \E r \in pendingRest, code \in {409, 404, 0}, id \in MsgIds : StartCallFailed(r, code, id)
    \/ \E r \in pendingRest, code \in {200, 409}, accepted \in BOOLEAN :
          AcceptCallProceed(r, code, accepted)
    \/ \E r \in pendingRest, code \in {409, 404, 0}, accepted \in BOOLEAN, id \in MsgIds :
          AcceptCallFailed(r, code, accepted, id)
    \/ \E r \in pendingRest : DeclineCallSettled(r)
    \/ \E m \in pendingMedia : MediaGranted(m)
    \/ \E m \in pendingMedia, kind \in {"permission", "notfound"} : MediaDenied(m, kind)

\* at most MaxLag events are handled between two renders, and at most MaxEvents
\* external events in a run
Next ==
    \/ Render
    \/ ExternalStep(WsOnOpen)
    \/ ExternalStep(WsOnClose)
    \/ ExternalStep(UiEndCall)
    \/ \E id \in CallIds : ExternalStep(RecvIncomingCall(id))
    \/ \E id \in MsgIds : ExternalStep(RecvCallRinging(id))
    \/ \E id \in MsgIds : ExternalStep(RecvCallAccepted(id))
    \/ \E id \in MsgIds, r \in {"ok", "reject"} : ExternalStep(RecvParticipantsReady(id, r))
    \/ \E id \in MsgIds, r \in {"ok", "reject_remote", "reject"} : ExternalStep(RecvOffer(id, r))
    \/ \E id \in MsgIds, r \in {"ok", "reject"} : ExternalStep(RecvAnswer(id, r))
    \/ \E id \in MsgIds, r \in {"ok", "reject"} : ExternalStep(RecvIceCandidate(id, r))
    \/ \E id \in MsgIds : ExternalStep(RecvCallEnded(id))
    \/ \E id \in MsgIds : ExternalStep(RecvCallDeclined(id))
    \/ \E id \in MsgIds : ExternalStep(RecvCallBusy(id))
    \/ \E id \in MsgIds : ExternalStep(RecvNoAnswer(id))
    \/ \E t \in CallTypes : ExternalStep(StartCall(t))
    \/ \E t \in CallTypes : ExternalStep(AcceptCall(t))
    \/ ExternalStep(DeclineCall)
    \/ ExternalStep(Unmount)
    \/ ExternalStep(PcConnectionFailed)
    \/ ExternalStep(PcOnTrack)
    \/ ExternalStep(PcOnIceCandidate)
    \/ InternalStep(Tick)
    \/ InternalStep(FireDeclinedTimer)
    \/ InternalStep(FireIdleTimer)
    \/ \E r \in pendingRest, id \in CallIds : InternalStep(StartCallOk(r, id))
    \/ \E r \in pendingRest, code \in {409, 404, 0}, id \in MsgIds : InternalStep(StartCallFailed(r, code, id))
    \/ \E r \in pendingRest, code \in {200, 409}, accepted \in BOOLEAN :
          InternalStep(AcceptCallProceed(r, code, accepted))
    \/ \E r \in pendingRest, code \in {409, 404, 0}, accepted \in BOOLEAN, id \in MsgIds :
          InternalStep(AcceptCallFailed(r, code, accepted, id))
    \/ \E r \in pendingRest : InternalStep(DeclineCallSettled(r))
    \/ \E m \in pendingMedia : InternalStep(MediaGranted(m))
    \/ \E m \in pendingMedia, kind \in {"permission", "notfound"} : InternalStep(MediaDenied(m, kind))

Spec == Init /\ [][Next]_vars

(* A relay that forwards control messages only for the session the client is   *)
(* in, in the status they belong to. Late and duplicate negotiation messages   *)
(* (any call_id) and a call_ended for the call of the last render are still    *)
(* delivered. Every behaviour of SpecRelay is a behaviour of Spec.             *)
RelayRinging(id) == cs.status = "calling" /\ id = cs.callId

RelayAccepted(id) == cs.status \in {"calling", "ringing"} /\ id = cs.callId

RelayReady(id) == cs.status = "connected" /\ id = cs.callId

RelayEnded(id) == id # NoId /\ id \in {cs.callId, callStateRef.callId}

RelayOutcome(id) == cs.status \in {"calling", "ringing"} /\ id = cs.callId

\* the backend gives a new call an id that no call known to the client has
RelayFresh(id) == id \notin {cs.callId, callStateRef.callId, incomingCall.callId, rIncoming.callId}

NextRelay ==
    \/ Render
    \/ ExternalStep(WsOnOpen)
    \/ ExternalStep(WsOnClose)
    \/ ExternalStep(UiEndCall)
    \/ \E id \in CallIds : RelayFresh(id) /\ ExternalStep(RecvIncomingCall(id))
    \/ \E id \in MsgIds : RelayRinging(id) /\ ExternalStep(RecvCallRinging(id))
    \/ \E id \in MsgIds : RelayAccepted(id) /\ ExternalStep(RecvCallAccepted(id))
    \/ \E id \in MsgIds, r \in {"ok", "reject"} : RelayReady(id) /\ ExternalStep(RecvParticipantsReady(id, r))
    \/ \E id \in MsgIds, r \in {"ok", "reject_remote", "reject"} : ExternalStep(RecvOffer(id, r))
    \/ \E id \in MsgIds, r \in {"ok", "reject"} : ExternalStep(RecvAnswer(id, r))
    \/ \E id \in MsgIds, r \in {"ok", "reject"} : ExternalStep(RecvIceCandidate(id, r))
    \/ \E id \in MsgIds : RelayEnded(id) /\ ExternalStep(RecvCallEnded(id))
    \/ \E id \in MsgIds : RelayOutcome(id) /\ ExternalStep(RecvCallDeclined(id))
    \/ \E id \in MsgIds : RelayOutcome(id) /\ ExternalStep(RecvCallBusy(id))
    \/ \E id \in MsgIds : RelayOutcome(id) /\ ExternalStep(RecvNoAnswer(id))
    \/ \E t \in CallTypes : ExternalStep(StartCall(t))
    \/ \E t \in CallTypes : ExternalStep(AcceptCall(t))
    \/ ExternalStep(DeclineCall)
    \/ ExternalStep(Unmount)
    \/ ExternalStep(PcConnectionFailed)
    \/ ExternalStep(PcOnTrack)
    \/ ExternalStep(PcOnIceCandidate)
    \/ InternalStep(Tick)
    \/ InternalStep(FireDeclinedTimer)
    \/ InternalStep(FireIdleTimer)
    \/ \E r \in pendingRest, id \in CallIds : RelayFresh(id) /\ InternalStep(StartCallOk(r, id))
    \/ \E r \in pendingRest, code \in {409, 404, 0}, id \in MsgIds : InternalStep(StartCallFailed(r, code, id))
    \/ \E r \in pendingRest, code \in {200, 409}, accepted \in BOOLEAN :
          InternalStep(AcceptCallProceed(r, code, accepted))
    \/ \E r \in pendingRest, code \in {409, 404, 0}, accepted \in BOOLEAN, id \in MsgIds :
          InternalStep(AcceptCallFailed(r, code, accepted, id))
    \/ \E r \in pendingRest : InternalStep(DeclineCallSettled(r))
    \/ \E m \in pendingMedia : InternalStep(MediaGranted(m))
    \/ \E m \in pendingMedia, kind \in {"permission", "notfound"} : InternalStep(MediaDenied(m, kind))

SpecRelay == Init /\ [][NextRelay]_vars

(* ------------------------ a call between two clients ------------------ *)
\* The relay is not part of the client. It is taken to do what the handlers of
\* lines 318-379 expect of it: initiate_call reaches the callee as
\* incoming_call; accept_call reaches the caller as call_accepted, and then
\* both as participants_ready; offer and answer are forwarded to the peer.
\* Messages to one client are delivered in the order the relay queued them.
Forwarded(from, e) ==
    IF e.type = "initiate_call"
    THEN [p \in Clients |-> IF p = from THEN <<>> ELSE <<Sig("incoming_call", e.id)>>]
    ELSE IF e.type = "accept_call"
    THEN [p \in Clients |-> IF p = from THEN <<Sig("participants_ready", e.id)>>
                            ELSE <<Sig("call_accepted", e.id), Sig("participants_ready", e.id)>>]
    ELSE IF e.type \in {"offer", "answer"}
    THEN [p \in Clients |-> IF p = from THEN <<>> ELSE <<e>>]
    ELSE [p \in Clients |-> <<>>]

\* the queues after the relay took what a step sent (a step sends at most one
\* signaling message)
Relayed(queues, sent) ==
    IF \E e \in sent : e.ch = "ws"
    THEN LET e == CHOOSE x \in sent : x.ch = "ws"
         IN  [p \in Clients |-> queues[p] \o Forwarded(active, e)[p]]
    ELSE queues

\* a step of the active client that is not the delivery of a message; the
\* scenario is finite, so the steps between two renders are not limited and lag
\* only records that a render is due
ClientStep(A) ==
    /\ lag' = Min(lag + 1, MaxLag) /\ UNCHANGED events /\ A
    /\ inbox' = Relayed(inbox, effects')
    /\ UNCHANGED <<other, active, sockets, wsRef, isConnected, helper>>

\* ws.onmessage for the message at the head of the active client's queue
NextMessage == Head(inbox[active])

Delivery(type, A) ==
    /\ inbox[active] # <<>>
    /\ NextMessage.type = type
    /\ lag' = Min(lag + 1, MaxLag) /\ UNCHANGED events /\ A
    /\ inbox' = Relayed([inbox EXCEPT ![active] = Tail(@)], effects')
    /\ UNCHANGED <<other, active, sockets, wsRef, isConnected, helper>>

\* the other client takes the next steps
Swap ==
    /\ other' = Coordinator
    /\ active' = Peer(active)
    /\ cs' = other.cs
    /\ callStateRef' = other.callStateRef
    /\ incomingCall' = other.incomingCall
    /\ rIncoming' = other.rIncoming
    /\ ws' = other.ws
    /\ pc' = other.pc
    /\ pcOpen' = other.pcOpen
    /\ liveStreams' = other.liveStreams
    /\ timers' = other.timers
    /\ durationIntervalRef' = other.durationIntervalRef
    /\ armed' = other.armed
    /\ pendingRest' = other.pendingRest
    /\ pendingMedia' = other.pendingMedia
    /\ effects' = other.effects
    /\ mounted' = other.mounted
    /\ lag' = other.lag
    /\ events' = other.events
    /\ UNCHANGED <<inbox, sockets, wsRef, isConnected, helper>>

\* the user of a client that is in no call and has no request in flight; a
\* user acts on what is on the screen, long after the renders that were due
Free == cs.status = "idle" /\ pendingRest = {} /\ lag = 0 /\ other.lag = 0

\* The happy path: A starts one video call once its socket is open, B accepts
\* the call it is shown, every request succeeds, the devices are granted and
\* the browser's negotiation calls resolve.
PairProgress ==
    \/ Render
    \/ ClientStep(WsOnOpen)
    \/ active = "A" /\ Free /\ ws = "open" /\ ClientStep(StartCall("video"))
    \/ \E r \in pendingRest : ClientStep(StartCallOk(r, "c1"))
    \/ active = "B" /\ Free /\ ClientStep(AcceptCall("video"))
    \/ \E r \in pendingRest : ClientStep(AcceptCallProceed(r, 200, FALSE))
    \/ \E m \in pendingMedia : ClientStep(MediaGranted(m))
    \/ ClientStep(Tick)
    \/ Delivery("incoming_call", RecvIncomingCall(NextMessage.id))
    \/ Delivery("call_accepted", RecvCallAccepted(NextMessage.id))
    \/ Delivery("participants_ready", RecvParticipantsReady(NextMessage.id, "ok"))
    \/ Delivery("offer", RecvOffer(NextMessage.id, "ok"))
    \/ Delivery("answer", RecvAnswer(NextMessage.id, "ok"))

NextPair ==
    \/ Render
    \/ ClientStep(WsOnOpen)
    \/ active = "A" /\ Free /\ ws = "open" /\ ClientStep(StartCall("video"))
    \/ \E r \in pendingRest : ClientStep(StartCallOk(r, "c1"))
    \/ active = "B" /\ Free /\ ClientStep(AcceptCall("video"))
    \/ \E r \in pendingRest : ClientStep(AcceptCallProceed(r, 200, FALSE))
    \/ \E m \in pendingMedia : ClientStep(MediaGranted(m))
    \/ ClientStep(Tick)
    \/ Delivery("incoming_call", RecvIncomingCall(NextMessage.id))
    \/ Delivery("call_accepted", RecvCallAccepted(NextMessage.id))
    \/ Delivery("participants_ready", RecvParticipantsReady(NextMessage.id, "ok"))
    \/ Delivery("offer", RecvOffer(NextMessage.id, "ok"))
    \/ Delivery("answer", RecvAnswer(NextMessage.id, "ok"))
    \/ Swap

\* both clients run, and each keeps taking the steps it can take: renders,
\* completions of what it awaits, and deliveries of what the relay queued for it
PairFairness ==
    /\ WF_vars(Swap)
    /\ \A p \in Clients : SF_vars(active = p /\ PairProgress)

SpecPair == Init /\ [][NextPair]_vars /\ PairFairness

\* client p, whichever of the two is taking steps
Client(p) == IF active = p THEN Coordinator ELSE other

(* ------------------- the socket effect, all its sockets ---------------- *)
\* the call session, which the steps of the socket effect leave alone
session == <<cs, callStateRef, incomingCall, rIncoming, ws, pc, pcOpen, liveStreams,
             timers, durationIntervalRef, armed, pendingRest, pendingMedia, effects,
             lag, events, other, active, inbox>>

\* the cleanup of the effect (lines 437-441) for the socket it created, which
\* is the one wsRef holds: close() only if it is open
SocketCleanup == [sockets EXCEPT ![wsRef] = IF @ = "open" THEN "closing" ELSE @]

\* token or userId changed: the cleanup runs, then the effect again (lines
\* 299-435): without credentials it returns early, otherwise it creates the
\* next socket and stores it in wsRef
CredentialsChange(present) ==
    /\ mounted
    /\ IF present
       THEN /\ wsRef < MaxSockets
            /\ sockets' = [SocketCleanup EXCEPT ![wsRef + 1] = "connecting"]
            /\ wsRef' = wsRef + 1
       ELSE /\ sockets[wsRef] = "open"
            /\ sockets' = SocketCleanup
            /\ UNCHANGED wsRef
    /\ UNCHANGED <<isConnected, mounted, session, helper>>

\* ws.onopen of socket i (lines 309-312); a state update of an unmounted
\* component does nothing
SocketOpens(i) ==
    /\ sockets[i] = "connecting"
    /\ sockets' = [sockets EXCEPT ![i] = "open"]
    /\ isConnected' = IF mounted THEN TRUE ELSE isConnected
    /\ UNCHANGED <<wsRef, mounted, session, helper>>

\* ws.onclose of socket i (lines 430-433): the connection failed, was lost,
\* or its close() completed
SocketCloses(i) ==
    /\ sockets[i] \in {"connecting", "open", "closing"}
    /\ sockets' = [sockets EXCEPT ![i] = "closed"]
    /\ isConnected' = IF mounted THEN FALSE ELSE isConnected
    /\ UNCHANGED <<wsRef, mounted, session, helper>>

\* the component unmounts: the cleanup of the effect runs
SocketUnmount ==
    /\ mounted
    /\ mounted' = FALSE
    /\ sockets' = SocketCleanup
    /\ UNCHANGED <<wsRef, isConnected, session, helper>>

NextSocket ==
    \/ \E present \in BOOLEAN : CredentialsChange(present)
    \/ \E i \in SocketIds : SocketOpens(i)
    \/ \E i \in SocketIds : SocketCloses(i)
    \/ SocketUnmount

SpecSocket == Init /\ [][NextSocket]_vars

(* ------------------ the reconnecting helper (services/ws.ts) ----------- *)
\* connectDirect and connectGroup pass retry = true
retry == TRUE

\* socket = null
NoSocket == 0

\* everything but the helper's handle
hook == <<session, mounted, sockets, wsRef, isConnected>>

\* sockets the helper has created
Created == {i \in ConnIds : conns[i] # "unused"}

\* open(): a new socket, stored in the variable socket
Open ==
    /\ Cardinality(Created) < MaxConns
    /\ conns' = [conns EXCEPT ![Cardinality(Created) + 1] = "connecting"]
    /\ socket' = Cardinality(Created) + 1

\* socket.onopen of socket i
HelperOnOpen(i) ==
    /\ conns[i] = "connecting"
    /\ conns' = [conns EXCEPT ![i] = "open"]
    /\ called' = {"onOpen"}
    /\ retryDelay' = 500
    /\ UNCHANGED <<socket, closedByUser, retryTimers, hook>>

\* socket.onmessage of socket i; a frame that is not JSON is only logged
HelperOnMessage(i, valid) ==
    /\ conns[i] = "open"
    /\ called' = IF valid THEN {"onMessage"} ELSE {}
    /\ called' # called
    /\ UNCHANGED <<socket, closedByUser, retryDelay, conns, retryTimers, hook>>

\* socket.onerror of socket i
HelperOnError(i) ==
    /\ conns[i] \in {"connecting", "open"}
    /\ called' = {"onError"}
    /\ called' # called
    /\ UNCHANGED <<socket, closedByUser, retryDelay, conns, retryTimers, hook>>

\* socket.onclose of socket i: the connection failed, was lost, or its close()
\* completed
HelperOnClose(i) ==
    /\ conns[i] \in {"connecting", "open", "closing"}
    /\ conns' = [conns EXCEPT ![i] = "closed"]
    /\ called' = {"onClose"}
    /\ socket' = NoSocket
    /\ IF ~closedByUser /\ retry
       THEN /\ retryTimers' = Append(retryTimers, retryDelay)
            /\ retryDelay' = Min(retryDelay * 2, 5000)
       ELSE UNCHANGED <<retryTimers, retryDelay>>
    /\ UNCHANGED <<closedByUser, hook>>

\* a timer set by onclose fires: open()
HelperRetry(k) ==
    /\ k \in 1..Len(retryTimers)
    /\ retryTimers' = [j \in 1..(Len(retryTimers) - 1) |->
                          retryTimers[IF j < k THEN j ELSE j + 1]]
    /\ Open
    /\ called' = {}
    /\ UNCHANGED <<closedByUser, retryDelay, hook>>

\* close() of the handle
HelperClose ==
    /\ closedByUser' = TRUE
    /\ conns' = IF socket # NoSocket /\ conns[socket] = "open"
                THEN [conns EXCEPT ![socket] = "closing"]
                ELSE conns
    /\ socket' = NoSocket
    /\ called' = {}
    /\ <<closedByUser', conns', socket', called'>> # <<closedByUser, conns, socket, called>>
    /\ UNCHANGED <<retryDelay, retryTimers, hook>>

NextHelper ==
    \/ \E i \in ConnIds : HelperOnOpen(i)
    \/ \E i \in ConnIds, valid \in BOOLEAN : HelperOnMessage(i, valid)
    \/ \E i \in ConnIds : HelperOnError(i)
    \/ \E i \in ConnIds : HelperOnClose(i)
    \/ \E k \in 1..MaxConns : HelperRetry(k)
    \/ HelperClose

SpecHelper == Init /\ [][NextHelper]_vars

(* ============================== claims ================================ *)
\* the three ways endCall is invoked: the End-call button, a failed or
\* disconnected peer connection, an inbound call_ended
EndCallStep == UiEndCall \/ PcConnectionFailed \/ (\E id \in MsgIds : RecvCallEnded(id))

\* C1: an inbound offer, answer or ice_candidate whose call_id is missing or is
\* not the session's callId is ignored: no description or candidate is applied to
\* the peer connection, no answer is sent, and callState does not change.
C1_StaleNegotiationIgnored ==
    [][\A id \in MsgIds, r \in {"ok", "reject_remote", "reject"} :
          ((id = NoId \/ id # cs.callId)
           /\ (RecvOffer(id, r) \/ RecvAnswer(id, r) \/ RecvIceCandidate(id, r)))
          => /\ pc' = pc
             /\ cs' = cs
             /\ \A e \in effects' : e.type # "answer"]_vars

\* C2: an inbound message of any consumed type that is tagged with a call_id other
\* than the session's callId leaves callState as it is and issues no REST request
\* and no signaling message.
C2_StaleMessagesNoOp ==
    [][\A id \in CallIds, r \in {"ok", "reject_remote", "reject"} :
          (id # cs.callId
           /\ (\/ RecvCallRinging(id) \/ RecvCallAccepted(id)
               \/ RecvParticipantsReady(id, r) \/ RecvCallEnded(id)
               \/ RecvCallDeclined(id) \/ RecvCallBusy(id) \/ RecvNoAnswer(id)
               \/ RecvOffer(id, r) \/ RecvAnswer(id, r) \/ RecvIceCandidate(id, r)))
          => /\ cs' = cs
             /\ \A e \in effects' : e.ch \notin {"rest", "ws"}]_vars

\* C3: whenever status is not idle, callId is set.
C3_CallIdWhenNotIdle == cs.status # "idle" => cs.callId # NULL

\* C4: whenever status is idle, no acquired local stream has live tracks, and
\* localStream and remoteStream are null.
C4_IdleReleasesStreams ==
    cs.status = "idle" => liveStreams = 0 /\ cs.localStream = NULL /\ cs.remoteStream = NULL

\* C5: endCall invoked while status is calling, ringing or connected closes the
\* peer connection and clears its reference, stops the tracks of localStream,
\* and leaves localStream and remoteStream null, callDuration 0, callId null,
\* isInitiator false and no incoming-call notice, whether or not the signaling
\* channel is open (the REST request is fire-and-forget: its failure does nothing).
C5_EndCallCleansUp ==
    [][(cs.status \in {"calling", "ringing", "connected"} /\ EndCallStep)
       => /\ pc' = NoPc
          /\ pcOpen' = 0
          /\ liveStreams' = IF cs.localStream # NULL THEN liveStreams - 1 ELSE liveStreams
          /\ cs'.localStream = NULL
          /\ cs'.remoteStream = NULL
          /\ cs'.callDuration = 0
          /\ cs'.callId = NULL
          /\ ~cs'.isInitiator
          /\ incomingCall' = NoIncoming
          /\ armed' = 0]_vars

\* C6: status ended is transient: whenever status is ended, a step that needs no
\* user action and no inbound message (a render, a timer, the completion of an
\* asynchronous operation) is still to come.
C6_EndedIsTransient ==
    cs.status = "ended" /\ mounted => lag > 0 \/ ENABLED Internal

\* C7: ending is idempotent: when endCall has just issued the end_call REST
\* request for a call, an endCall invoked right after it (before or after the
\* re-render) issues no end_call REST request and no end_call message for that
\* call and leaves callState as it is.
C7_EndCallIdempotent ==
    [][\A id \in CallIds :
          (Rest("end_call", id) \in effects /\ EndCallStep)
          => /\ cs' = cs
             /\ \A e \in effects' : ~(e.type = "end_call" /\ e.id = id)]_vars

\* C8: at most one acquired local stream has live tracks and at most one peer
\* connection is open.
C8_OneStreamOnePc == liveStreams <= 1 /\ pcOpen <= 1

\* C9: a tick of the duration interval happens only while status is connected
\* and adds exactly 1; no interval is armed in a state with another status; at
\* most one interval is armed; an unmount leaves none armed.
C9_DurationTimer ==
    [][/\ Tick => cs.status = "connected" /\ cs'.callDuration = cs.callDuration + 1
       /\ cs'.status # "connected" => armed' = 0
       /\ armed' <= 1
       /\ Unmount => armed' = 0]_vars

\* C10: callDuration is 0 when a session is created, by startCall registering it
\* as calling or by acceptCall making it connected.
C10_NewSessionFromZero ==
    [][(\E r \in pendingRest :
            \/ \E id \in CallIds : StartCallOk(r, id)
            \/ \E code \in {200, 409}, accepted \in BOOLEAN : AcceptCallProceed(r, code, accepted))
       => cs'.callDuration = 0]_vars

\* C11: an invocation of startCall that passes the channel check issues exactly
\* one initiate_call REST request, and when the request succeeds exactly one
\* initiate_call message carrying the returned callId is sent, also when the
\* channel closed while the request was in flight.
C11_OneInitiatePerStart ==
    [][/\ \A t \in CallTypes :
             (ws = "open" /\ StartCall(t)) => effects' = {Rest("initiate_call", NULL)}
       /\ \A r \in pendingRest, id \in CallIds :
             StartCallOk(r, id) => effects' = {Sig("initiate_call", id)}]_vars

\* C12: startCall invoked while the channel is not open issues no REST request
\* and no signaling message, sets the error, and ends with status idle and
\* callId null.
C12_StartNeedsOpenChannel ==
    [][\A t \in CallTypes :
          (ws # "open" /\ StartCall(t))
          => /\ effects' = {SetError("WebSocket is not connected")}
             /\ pendingRest' = pendingRest
             /\ cs'.status = "idle"
             /\ cs'.callId = NULL]_vars

\* C12's case: the last render showed a call being placed, the socket closed,
\* and startCall has just been invoked again.
C12_Witness ==
    /\ ws = "closed"
    /\ lag = 1
    /\ callStateRef.status = "calling"
    /\ callStateRef.callId # NULL
    /\ effects = {SetError("WebSocket is not connected")}
    /\ cs.status = "idle"
    /\ cs.callId = NULL

\* C13: when initiate_call is rejected with 409 carrying call_id X, one end_call
\* REST request for X and, on an open channel, one end_call message for X are
\* issued, no initiate_call message is sent, the conflict message is set, and the
\* session is idle with callId null, no peer connection and no local stream.
C13_ConflictEndsStaleCall ==
    [][\A r \in pendingRest, X \in CallIds :
          StartCallFailed(r, 409, X)
          => /\ effects' = {SetError(StartCallError(409)), Rest("end_call", X)}
                           \cup (IF ws = "open" THEN {Sig("end_call", X)} ELSE {})
             /\ cs'.status = "idle"
             /\ cs'.callId = NULL
             /\ cs'.localStream = NULL
             /\ pc' = NoPc
             /\ pcOpen' = 0]_vars

\* C13's case: the conflict was reported for c1 on an open channel while a call
\* with a local stream was shown; both end_call notifications went out and the
\* session is idle.
C13_Witness ==
    /\ ws = "open"
    /\ callStateRef.localStream = STREAM
    /\ effects = {SetError(StartCallError(409)), Rest("end_call", "c1"), Sig("end_call", "c1")}
    /\ cs.status = "idle"
    /\ cs.localStream = NULL
    /\ ~pc.set

\* C14: an accept_call rejected with 409 'already accepted' makes the same step
\* as a successful one: connected, callId the incoming call's, isInitiator false,
\* accept_call sent on an open channel and no end_call; any other 409 and a 404
\* clear the notice, set an error and end with status idle.
C14_IdempotentAccept ==
    [][\A r \in pendingRest :
          /\ AcceptCallProceed(r, 409, TRUE) <=> AcceptCallProceed(r, 200, FALSE)
          /\ AcceptCallProceed(r, 409, TRUE)
             => /\ cs'.status = "connected"
                /\ cs'.callId = r.callId
                /\ ~cs'.isInitiator
                /\ effects' = IF ws = "open" THEN {Sig("accept_call", r.callId)} ELSE {}
          /\ \A code \in {409, 404}, accepted \in BOOLEAN, d \in MsgIds :
                AcceptCallFailed(r, code, accepted, d)
                => /\ incomingCall' = NoIncoming
                   /\ \E e \in effects' : e.ch = "error"
                   /\ cs'.status = "idle"]_vars

\* C14's case: the accept has just settled with canProceed: the callee is
\* connected on the incoming call's id, accept_call went out, and the notice is
\* still up while the media request is pending.
C14_Witness ==
    /\ lag = 1
    /\ callStateRef.status = "idle"
    /\ cs.status = "connected"
    /\ ~cs.isInitiator
    /\ incomingCall # NoIncoming
    /\ cs.callId = incomingCall.callId
    /\ effects = {Sig("accept_call", cs.callId)}
    /\ pendingRest = {}

\* C16: declineCall on a pending incoming call makes the callee declined, clears
\* the notice and sends decline_call; call_declined makes the caller declined;
\* and when the fixed delay elapses in status declined, either of them is idle
\* with callId null, no local stream and no open peer connection.
C16_DeclineEndState ==
    [][/\ \A r \in pendingRest :
             DeclineCallSettled(r)
             => /\ cs'.status = "declined"
                /\ incomingCall' = NoIncoming
                /\ ws = "open" => Sig("decline_call", r.callId) \in effects'
       /\ \A id \in MsgIds :
             (RecvCallDeclined(id) /\ cs.status \in {"calling", "ringing"})
             => cs'.status = "declined"
       /\ (FireDeclinedTimer /\ cs.status = "declined")
          => /\ cs'.status = "idle"
             /\ cs'.callId = NULL
             /\ cs'.localStream = NULL
             /\ liveStreams' = 0
             /\ ~pc'.set
             /\ pcOpen' = 0]_vars

\* C17: when the first capture request of a video acquisition fails, for a
\* permission failure or a device failure, an audio-only request is made next;
\* when an audio-only request fails, no further request is made; neither failure
\* changes status or callId.
C17_MediaFallback ==
    [][\A m \in pendingMedia, kind \in {"permission", "notfound"} :
          MediaDenied(m, kind)
          => /\ (~m.audioOnly /\ ~m.fallback)
                => pendingMedia' = (pendingMedia \ {m}) \cup {[m EXCEPT !.fallback = TRUE]}
             /\ (m.audioOnly \/ m.fallback) => pendingMedia' = pendingMedia \ {m}
             /\ cs'.status = cs.status
             /\ cs'.callId = cs.callId]_vars

C19_OfferOnlyByInitiator ==
    [][(\E e \in effects' : e.type = "offer")
       => /\ \E id \in MsgIds, r \in {"ok", "reject"} : RecvParticipantsReady(id, r)
          /\ cs'.isInitiator
          /\ effects' = {Sig("offer", cs'.callId)}]_vars

Negotiated ==
    /\ Client("A").cs.status = "connected"
    /\ Client("B").cs.status = "connected"
    /\ Client("A").cs.callId = Client("B").cs.callId
    /\ Client("A").pc.local = "offer" /\ Client("A").pc.remote = "answer"
    /\ Client("B").pc.remote = "offer" /\ Client("B").pc.local = "answer"

C15_HappyPath ==
    <>(Negotiated /\ Client("A").cs.callDuration > 0 /\ Client("B").cs.callDuration > 0)

\* the statuses whose message getStatusMessage shows as the outcome of a call
TerminalStatus == {"ended", "declined", "busy", "no_answer"}

\* what the page and the component render for a committed state: the call view
\* needs no incoming notice, a status other than idle and a callId
CallViewShown(s, notice) == notice = NoIncoming /\ s.status # "idle" /\ s.callId # NULL

\* C21: while status is a terminal outcome (ended, declined, busy, no_answer)
\* the call view, which shows the outcome message, is rendered.
C21_OutcomeShown == cs.status \in TerminalStatus => CallViewShown(cs, incomingCall)

\* a start or an accept that failed: startCall's catch (lines 508-558) and
\* acceptCall's (lines 619-650) end in a cleanup that sets status idle
FailedStartOrAccept ==
    \/ \E t \in CallTypes : ws # "open" /\ StartCall(t)
    \/ \E r \in pendingRest, code \in {409, 404, 0}, id \in MsgIds : StartCallFailed(r, code, id)
    \/ \E r \in pendingRest, code \in {409, 404, 0}, accepted \in BOOLEAN, id \in MsgIds :
          AcceptCallFailed(r, code, accepted, id)

\* the edges of the call state machine: from idle to calling (startCall); from
\* calling to ringing; from calling or ringing to connected, busy or no_answer;
\* to ended or declined from any status; to idle from a terminal status
StatusEdge(from, to) ==
    \/ to = "calling" /\ from = "idle"
    \/ to = "ringing" /\ from = "calling"
    \/ to = "connected" /\ from \in {"calling", "ringing"}
    \/ to \in {"busy", "no_answer"} /\ from \in {"calling", "ringing"}
    \/ to \in {"ended", "declined"}
    \/ to = "idle" /\ from \in TerminalStatus

\* C22: every change of status follows an edge of the call state machine, is
\* the accept of an incoming call by an idle client, or is the return to idle
\* of a failed start or accept; in particular call_ringing, call_accepted,
\* participants_ready, call_busy and no_answer received while status is idle
\* leave it idle.
C22_StatusEdges ==
    [][cs'.status # cs.status
       => \/ StatusEdge(cs.status, cs'.status)
          \/ /\ cs.status = "idle" /\ cs'.status = "connected"
             /\ \E r \in pendingRest, code \in {200, 409}, accepted \in BOOLEAN :
                   AcceptCallProceed(r, code, accepted)
          \/ cs'.status = "idle" /\ FailedStartOrAccept]_vars

\* C23: every ice_candidate message that is sent carries the session's current
\* callId, which is not null, and is sent on an open channel; a candidate found
\* while callId is null or the channel is not open sends nothing.
C23_CandidateTagged ==
    [][/\ \A e \in effects' :
             e.ch = "ws" /\ e.type = "ice_candidate"
             => ws = "open" /\ cs.callId # NULL /\ e.id = cs.callId
       /\ PcOnIceCandidate /\ (cs.callId = NULL \/ ws # "open") => effects' = {}]_vars

\* the user-facing errors among the commands of a step
Errors(cmds) == {e \in cmds : e.ch = "error"}

\* the offer and answer messages among the commands of a step
Descriptions(cmds) == {e \in cmds : e.ch = "ws" /\ e.type \in {"offer", "answer"}}

\* C24: a failure of createOffer, of createAnswer or of applying a remote answer
\* (a missing peer connection or call id included) sets the user-facing error
\* and sends no offer or answer; a failure of applying a remote candidate sets
\* no error; none of them changes callId or the streams.
C24_NegotiationErrors ==
    [][/\ \A id \in MsgIds, r \in {"ok", "reject"} :
             RecvParticipantsReady(id, r) /\ callStateRef.isInitiator /\ CreateOfferFails(r)
             => Errors(effects') # {} /\ Descriptions(effects') = {}
       /\ \A id \in MsgIds, r \in {"ok", "reject_remote", "reject"} :
             RecvOffer(id, r) /\ ~NonActiveCall(id) /\ CreateAnswerFails(r)
             => Errors(effects') # {} /\ Descriptions(effects') = {}
       /\ \A id \in MsgIds, r \in {"ok", "reject"} :
             RecvAnswer(id, r) /\ ~NonActiveCall(id) /\ (~pc.set \/ r # "ok")
             => Errors(effects') # {} /\ Descriptions(effects') = {}
       /\ \A id \in MsgIds, r \in {"ok", "reject"} :
             RecvIceCandidate(id, r) => Errors(effects') = {}
       /\ \A id \in MsgIds, r \in {"ok", "reject_remote", "reject"} :
             RecvOffer(id, r) \/ RecvAnswer(id, r) \/ RecvIceCandidate(id, r)
             => cs' = cs]_vars

\* C25: a media acquisition that completes when its session is over (the session
\* has no callId any more) has no effect: the stream is not installed as
\* localStream and none of its tracks stays live.
C25_LateMediaDropped ==
    [][\A m \in pendingMedia :
          MediaGranted(m) /\ cs.callId = NULL
          => cs'.localStream = cs.localStream /\ liveStreams' = liveStreams]_vars

\* C26: an auto-revert timer sets status to idle only if status still is the
\* outcome status that armed it; when a new session was started meanwhile, its
\* firing leaves the status unchanged.
C26_TimerOnlyRevertsOutcome ==
    [][/\ FireIdleTimer /\ cs.status \notin {"busy", "no_answer"} => cs'.status = cs.status
       /\ FireDeclinedTimer /\ cs.status # "declined" => cs'.status = cs.status]_vars

\* C27: declining an incoming-call notice for another call than the one the
\* session is calling, ringing or connected on clears the notice, sends
\* decline_call for the notice's callId and leaves the session as it is.
C27_DeclineKeepsActiveCall ==
    [][\A r \in pendingRest :
          /\ DeclineCallSettled(r)
          /\ cs.status \in {"calling", "ringing", "connected"}
          /\ cs.callId # NULL /\ r.callId # cs.callId
          => /\ incomingCall' = NoIncoming
             /\ ws = "open" => Sig("decline_call", r.callId) \in effects'
             /\ cs' = cs]_vars

\* C28: the end_call request and the end_call message issued when the user
\* presses the End-call control identify the session's current callId.
C28_EndButtonNamesCall ==
    [][UiEndCall
       => \A e \in effects' :
             e.type = "end_call" => e.id \in {cs.callId, callStateRef.callId}]_vars

\* every socket event that was pending has been delivered
SocketsSettled == \A i \in SocketIds : sockets[i] \notin {"connecting", "closing"}

\* the sockets whose onmessage delivers messages to the handlers of the hook
OpenSockets == {i \in SocketIds : sockets[i] = "open"}

\* C29: once all pending socket events have been delivered, isConnected is true
\* exactly when the socket wsRef holds is open, and at most one socket delivers
\* messages, also when a change of token or userId or an unmount replaced or
\* discarded a socket that was connecting or closing.
C29_OneLiveSocket ==
    SocketsSettled
    => /\ mounted => (isConnected <=> sockets[wsRef] = "open")
       /\ Cardinality(OpenSockets) <= 1

\* sockets of the helper that are or may become open, and pending reopens
LiveConns == {i \in ConnIds : conns[i] \in {"connecting", "open"}}

\* nothing of the helper is pending: no socket event, no timer
HelperSettled ==
    /\ \A i \in ConnIds : conns[i] \notin {"connecting", "closing"}
    /\ retryTimers = <<>>

\* after close(): no new socket, no onOpen or onMessage, no socket left open
ClosedIsFinal ==
    /\ [][closedByUser => /\ Created' = Created
                          /\ called' \cap {"onOpen", "onMessage"} = {}]_vars
    /\ [](closedByUser /\ HelperSettled => \A i \in ConnIds : conns[i] # "open")

\* before close(): one reopen per close, with the delay 500, 1000, 2000, 4000,
\* 5000, 5000, ... of consecutive failures, and 500 again after an open
Backoff ==
    /\ [](~closedByUser => Cardinality(LiveConns) + Len(retryTimers) = 1)
    /\ [](\A k \in 1..Len(retryTimers) : retryTimers[k] \in {500, 1000, 2000, 4000, 5000})
    /\ [][\A i \in ConnIds :
            /\ HelperOnClose(i) /\ ~closedByUser
               => /\ retryTimers' = <<retryDelay>>
                  /\ retryDelay' = Min(2 * retryDelay, 5000)
            /\ HelperOnOpen(i) => retryDelay' = 500]_vars

\* C30: for a handle of the reconnecting helper, after close() no new socket is
\* opened, neither onOpen nor onMessage is called and no socket of the helper
\* remains open, whatever the state of the socket when close() was called;
\* before close() every close schedules exactly one reopen, with a delay that
\* starts at 500 ms, doubles per consecutive failure up to 5000 ms and is 500 ms
\* again after a successful open.
C30_HelperCloseAndBackoff == ClosedIsFinal /\ Backoff

====
